---------------------------- MODULE Spec2Model ----------------------------
(* Per-user document question answering: the vector index store            *)
(* (embedding2.py), the retrieval tool and the agent turn (rag.py) and the *)
(* HTTP endpoint (app.py).                                                  *)
(*                                                                          *)
(* Text is modelled as a sequence of tokens; the string it stands for is   *)
(* the concatenation of the tokens.  The characters "/" and "." that paths *)
(* are parsed by, and the blank " ", are always tokens of their own.       *)
EXTENDS Integers, Sequences, FiniteSets, TLC

\* ------------------------------------------------------------- bounds --
\* Operations invoked in one run, over all callers.
MaxCalls == 3
\* Operations invoked in one run of the agent's specification.
MaxTurns == 2
\* Tool requests the generation capability makes within one turn.
MaxRounds == 1
\* Documents stored for a user before the process starts.
MaxStored == 4

\* Steps a run of the agent is given when the caller's config names no
\* recursion_limit: the default of the graph library.
RecursionLimit == 25

\* ------------------------------------------------------------- inputs --
Workers == {1, 2}

\* User ids a caller or the generation capability may pass: two plain ids,
\* an id that names the same directory as "a", the empty id and a blank id.
UserIds == { <<"a">>, <<"b">>, <<".", "/", "a">>, << >>, <<" ">> }

\* Query texts of ask and search.
Queries == { <<"q">>, << >> }

\* The text files of the working directory, what each holds, and the
\* paths a store is tried with.
SourceFiles == { <<"p", ".", "txt">>, <<"n", ".", "PDF">> }
FilePaths == SourceFiles \cup { <<"gone", ".", "txt">> }
FileText(file_path) ==
    IF file_path = <<"p", ".", "txt">> THEN <<"passport">> ELSE <<"tax">>

\* Contents of a direct answer of the generation capability.
Answers == { <<"answer">>, << >> }

\* ------------------------------------------------------------ helpers --
Range(s) == { s[i] : i \in 1..Len(s) }

Last(s) == s[Len(s)]

IsPrefix(s, t) == Len(s) <= Len(t) /\ SubSeq(t, 1, Len(s)) = s

Take(s, n) == SubSeq(s, 1, IF n < Len(s) THEN n ELSE Len(s))

RECURSIVE SelectSeqBy(_, _)
\* the members of s that satisfy Test, in order (Test is a set of values)
SelectSeqBy(s, keep) ==
    IF s = << >> THEN << >>
    ELSE (IF Head(s) \in keep THEN <<Head(s)>> ELSE << >>)
         \o SelectSeqBy(Tail(s), keep)

\* str.strip() == "": every character is white space
IsBlank(text) == \A i \in 1..Len(text) : text[i] = " "

\* str.lower() on the tokens of the model's alphabet
Lower(token) ==
    CASE token = "PDF" -> "pdf"
      [] token = "TXT" -> "txt"
      [] OTHER -> token

\* ------------------------------------------------------------- paths ---
save_path == <<"user_embeddings">>

\* os.path.join(a, b)
PathJoin(a, b) ==
    IF b # << >> /\ Head(b) = "/" THEN b
    ELSE IF a = << >> \/ Last(a) = "/" THEN a \o b
    ELSE a \o <<"/">> \o b

RECURSIVE SplitPath(_, _, _)
\* the components of a path between its "/" separators
SplitPath(path, cur, acc) ==
    IF path = << >> THEN Append(acc, cur)
    ELSE IF Head(path) = "/" THEN SplitPath(Tail(path), << >>, Append(acc, cur))
    ELSE SplitPath(Tail(path), Append(cur, Head(path)), acc)

\* ------------------------------------------------------- file system ---
\* A node of the file system: a directory, or a file and what it holds.
Directory == [type |-> "dir", data |-> << >>]

File(data) == [type |-> "file", data |-> data]

\* A file whose write ended part-way: it is there and cannot be read back.
CutFile == [type |-> "cut", data |-> << >>]

\* The result of a walk that came to a component it could not look up.
NoSuchPath == [absolute |-> FALSE, parts |-> << << >> >>]

\* The directories of the file system `files`: the working directory, the
\* root, the directories above the working directory, and those made.
IsDir(files, at) ==
    \/ \A i \in 1..Len(at.parts) : at.parts[i] = <<".", ".">>
    \/ at \in DOMAIN files /\ files[at].type = "dir"

\* ".." of a directory; above the working directory the walk keeps the
\* ".." components, and the root is its own parent.
Parent(at) ==
    IF at.parts = << >>
    THEN (IF at.absolute THEN at ELSE [at EXCEPT !.parts = << <<".", ".">> >>])
    ELSE IF Last(at.parts) = <<".", ".">>
    THEN [at EXCEPT !.parts = Append(@, <<".", ".">>)]
    ELSE [at EXCEPT !.parts = SubSeq(@, 1, Len(@) - 1)]

\* One component of a walk, looked up in the directory the walk has come
\* to: "" and "." stay there, ".." goes to its parent.
WalkStep(files, component, at) ==
    IF ~IsDir(files, at) THEN NoSuchPath
    ELSE IF component = << >> \/ component = <<".">> THEN at
    ELSE IF component = <<".", ".">> THEN Parent(at)
    ELSE [at EXCEPT !.parts = Append(@, component)]

RECURSIVE WalkPath(_, _, _)
\* the file system's walk along the components of a path, from `at`
\* (each place is bound once, by the set it is drawn from)
WalkPath(files, parts, at) ==
    IF parts = << >> THEN at
    ELSE CHOOSE end \in { WalkPath(files, Tail(parts), next) :
                            next \in { WalkStep(files, Head(parts), at) } } : TRUE

\* The node a path names in the file system `files` (it need not exist),
\* or NoSuchPath when a directory on the way to it does not exist.
ResolvePath(files, path) ==
    IF path = << >> THEN NoSuchPath
    ELSE CHOOSE at \in
            { WalkPath(files, parts,
                       [absolute |-> Head(path) = "/", parts |-> << >>]) :
              parts \in { SplitPath(path, << >>, << >>) } } : TRUE

\* os.path.exists(path)
PathExists(files, path) ==
    \E at \in { ResolvePath(files, path) } :
        at # NoSuchPath /\ (at \in DOMAIN files \/ IsDir(files, at))

RECURSIVE MakeDirsFrom(_, _, _)
\* The directories of a path made one after the other, each in the one
\* before it; a component that is a file stops it.
MakeDirsFrom(files, parts, at) ==
    IF parts = << >> THEN [ok |-> TRUE, files |-> files]
    ELSE IF Head(parts) = << >> \/ Head(parts) = <<".">>
         THEN MakeDirsFrom(files, Tail(parts), at)
    ELSE IF Head(parts) = <<".", ".">>
         THEN MakeDirsFrom(files, Tail(parts), Parent(at))
    ELSE LET next == [at EXCEPT !.parts = Append(@, Head(parts))]
         IN IF next \in DOMAIN files /\ files[next].type # "dir"
            THEN [ok |-> FALSE, files |-> files]
            ELSE MakeDirsFrom(IF next \in DOMAIN files \/ IsDir(files, next)
                              THEN files ELSE (next :> Directory) @@ files,
                              Tail(parts), next)

\* os.makedirs(path, exist_ok=True), and the mkdir(parents=True,
\* exist_ok=True) of save_local: ok is FALSE when it raises
MakeDirs(files, path) ==
    MakeDirsFrom(files, SplitPath(path, << >>, << >>),
                 [absolute |-> path # << >> /\ Head(path) = "/", parts |-> << >>])

RECURSIVE MakeDirFrom(_, _, _)
\* The next os.mkdir of a makedirs that is at work on a path: the first
\* directory of the path that is not there is made; a component that is a
\* file stops it.
MakeDirFrom(files, parts, at) ==
    IF parts = << >> THEN [ok |-> TRUE, files |-> files]
    ELSE IF Head(parts) = << >> \/ Head(parts) = <<".">>
         THEN MakeDirFrom(files, Tail(parts), at)
    ELSE IF Head(parts) = <<".", ".">>
         THEN MakeDirFrom(files, Tail(parts), Parent(at))
    ELSE LET next == [at EXCEPT !.parts = Append(@, Head(parts))]
         IN IF next \in DOMAIN files /\ files[next].type # "dir"
            THEN [ok |-> FALSE, files |-> files]
            ELSE IF next \in DOMAIN files \/ IsDir(files, next)
            THEN MakeDirFrom(files, Tail(parts), next)
            ELSE [ok |-> TRUE, files |-> (next :> Directory) @@ files]

\* One os.mkdir of os.makedirs(path, exist_ok=True): ok is FALSE when it
\* raises.
MakeDir(files, path) ==
    MakeDirFrom(files, SplitPath(path, << >>, << >>),
                [absolute |-> path # << >> /\ Head(path) = "/", parts |-> << >>])

\* os.makedirs(path, exist_ok=True) has nothing left to make.
DirsMade(files, path) ==
    \E made \in { MakeDirs(files, path) } : made.ok /\ made.files = files

\* The working directory the process starts in: the source files.
SourceDisk ==
    [at \in { [absolute |-> FALSE, parts |-> <<f>>] : f \in SourceFiles } |->
        File(FileText(at.parts[1]))]

\* A file that can be read back whole.
IsFile(files, at) == at \in DOMAIN files /\ files[at].type = "file"

\* open(file_path, 'r', encoding='utf-8') and file.read(): ok is FALSE when
\* it raises, as it does for a directory and for a file that is not text
\* (the files of an index are binary).
ReadText(files, file_path) ==
    CHOOSE read \in
        { IF at \in DOMAIN SourceDisk /\ IsFile(files, at)
          THEN [ok |-> TRUE, text_content |-> files[at].data]
          ELSE [ok |-> FALSE, text_content |-> << >>] :
          at \in { ResolvePath(files, file_path) } } : TRUE

\* user_dir and vector_store_path of the three index operations
UserDir(user_id) == PathJoin(save_path, user_id)

VectorStorePath(user_id) ==
    PathJoin(UserDir(user_id), user_id \o <<"_faiss_index">>)

\* os.path.basename
RECURSIVE Basename(_)
Basename(path) ==
    IF \E i \in 1..Len(path) : path[i] = "/"
    THEN Basename(Tail(path)) ELSE path

\* os.path.splitext(path)[1]: from the last "." of the base name, when a
\* character other than "." precedes it
SplitExt(path) ==
    LET base == Basename(path)
        dots == { i \in 1..Len(base) : base[i] = "." }
        last == CHOOSE i \in dots : \A j \in dots : j <= i
    IN  IF dots = { } \/ \A j \in 1..(last - 1) : base[j] = "." THEN << >>
        ELSE SubSeq(base, last, Len(base))

\* data_source when none is given: the lower-cased extension without its
\* dots, or the base name when the path has no extension
DataSource(file_path) ==
    LET ext == SplitExt(file_path)
        lowered == [i \in 1..Len(ext) |-> Lower(ext[i])]
        file_extension == SelectSeqBy(lowered, Range(lowered) \ {"."})
    IN  IF file_extension # << >> THEN file_extension ELSE Basename(file_path)

\* ------------------------------------------------- embedding capability --
\* embeddings.embed_query / embed_documents: a pure function of the text.
\* One dimension is enough to order documents by distance.
TokenWeight(token) ==
    CASE token = "passport" -> 1
      [] token = "q" -> 2
      [] token = "tax" -> 5
      [] OTHER -> 0

RECURSIVE Embed(_)
Embed(text) ==
    IF text = << >> THEN 0 ELSE TokenWeight(Head(text)) + Embed(Tail(text))

\* faiss.IndexFlatL2: squared Euclidean distance
L2(x, y) == (x - y) * (x - y)

\* ------------------------------------------------------- vector index ---
\* Document(page_content, metadata) of store_user_embedding
Document(text_content, data_source, user_id, file_path) ==
    [page_content |-> text_content,
     metadata |-> [source |-> data_source, user_id |-> user_id,
                   filename |-> file_path]]

\* FAISS(embedding_function, index, docstore, index_to_docstore_id) with
\* nothing in it: the vectors of the index, and the documents by position
EmptyStore == [index |-> << >>, docstore |-> << >>]

\* vector_store.add_documents(documents=[document], ids=[doc_id]): one
\* more vector at the end of the index, the embedding of the content, and
\* the document at the next position of the docstore
AddDocuments(vector_store, document, doc_id) ==
    [index |-> Append(vector_store.index, Embed(document.page_content)),
     docstore |-> Append(vector_store.docstore,
                         [id |-> doc_id,
                          page_content |-> document.page_content,
                          metadata |-> document.metadata])]

\* The documents of a vector store with their vectors, by position.
Entries(vector_store) ==
    [i \in 1..(IF Len(vector_store.index) < Len(vector_store.docstore)
               THEN Len(vector_store.index) ELSE Len(vector_store.docstore)) |->
        [id |-> vector_store.docstore[i].id,
         vector |-> vector_store.index[i],
         page_content |-> vector_store.docstore[i].page_content,
         metadata |-> vector_store.docstore[i].metadata]]

\* The two files of an index folder.
IndexFile(at) == [at EXCEPT !.parts = Append(@, <<"index", ".", "faiss">>)]

DocstoreFile(at) == [at EXCEPT !.parts = Append(@, <<"index", ".", "pkl">>)]

\* FAISS.load_local, first half: faiss.read_index of index.faiss
ReadIndex(files, folder_path) ==
    CHOOSE read \in
        { IF at # NoSuchPath /\ IsFile(files, IndexFile(at))
          THEN [ok |-> TRUE, index |-> files[IndexFile(at)].data]
          ELSE [ok |-> FALSE, index |-> << >>] :
          at \in { ResolvePath(files, folder_path) } } : TRUE

\* FAISS.load_local, second half: pickle.load of index.pkl
ReadDocstore(files, folder_path) ==
    CHOOSE read \in
        { IF at # NoSuchPath /\ IsFile(files, DocstoreFile(at))
          THEN [ok |-> TRUE, docstore |-> files[DocstoreFile(at)].data]
          ELSE [ok |-> FALSE, docstore |-> << >>] :
          at \in { ResolvePath(files, folder_path) } } : TRUE

\* FAISS.load_local(folder_path, embeddings) with nothing else running
\* between its two reads: ok is FALSE when it raises
LoadLocal(files, folder_path) ==
    CHOOSE loaded \in
        { IF first.ok /\ second.ok
          THEN [ok |-> TRUE,
                vector_store |-> [index |-> first.index,
                                  docstore |-> second.docstore]]
          ELSE [ok |-> FALSE, vector_store |-> EmptyStore] :
          first \in { ReadIndex(files, folder_path) },
          second \in { ReadDocstore(files, folder_path) } } : TRUE

\* vector_store.save_local(folder_path), first half: it makes the folder
\* and writes the vectors to index.faiss.  fault: "none", "save" (it fails
\* before it makes the folder), "mkdir" (it fails once the folder is made)
\* or "index" (it fails inside the write of index.faiss).  ok is FALSE when
\* it raises.
WriteIndex(files, folder_path, vector_store, fault) ==
    LET made == MakeDirs(files, folder_path)
        at == ResolvePath(made.files, folder_path)
    IN  IF fault = "save" THEN [ok |-> FALSE, files |-> files]
        ELSE IF ~made.ok \/ fault = "mkdir" \/ IsDir(made.files, IndexFile(at))
        THEN [ok |-> FALSE, files |-> made.files]
        ELSE IF fault = "index"
        THEN [ok |-> FALSE, files |-> (IndexFile(at) :> CutFile) @@ made.files]
        ELSE [ok |-> TRUE,
              files |-> (IndexFile(at) :> File(vector_store.index)) @@ made.files]

\* vector_store.save_local(folder_path), second half: it opens index.pkl
\* and pickles the documents into it.  fault: "none", "write" (it fails
\* before it opens the file) or "docstore" (it fails inside the write).
WriteDocstore(files, folder_path, vector_store, fault) ==
    LET at == ResolvePath(files, folder_path)
    IN  IF fault = "write" \/ at = NoSuchPath \/ IsDir(files, DocstoreFile(at))
        THEN [ok |-> FALSE, files |-> files]
        ELSE IF fault = "docstore"
        THEN [ok |-> FALSE, files |-> (DocstoreFile(at) :> CutFile) @@ files]
        ELSE [ok |-> TRUE,
              files |-> (DocstoreFile(at) :> File(vector_store.docstore)) @@ files]

\* vector_store.save_local(folder_path) with nothing else running between
\* its two writes; fault is a fault of either half.
SaveLocal(files, folder_path, vector_store, fault) ==
    LET indexed == WriteIndex(files, folder_path, vector_store,
                              IF fault \in {"save", "mkdir", "index"}
                              THEN fault ELSE "none")
    IN  IF ~indexed.ok THEN indexed
        ELSE WriteDocstore(indexed.files, folder_path, vector_store,
                           IF fault \in {"write", "docstore"}
                           THEN fault ELSE "none")

\* Documents langchain's FAISS fetches before it applies a filter.
FetchK == 20

RECURSIVE InsertByScore(_, _)
\* e into a list ordered by score, after the entries that score the same
InsertByScore(sorted, e) ==
    IF sorted = << >> THEN <<e>>
    ELSE IF e.score < Head(sorted).score THEN <<e>> \o sorted
    ELSE <<Head(sorted)>> \o InsertByScore(Tail(sorted), e)

\* A search that leaves the entries in the order they were stored.
IndexOrder(entries, sorted) == entries

RECURSIVE SortByScore(_, _)
SortByScore(entries, sorted) ==
    IF entries = << >> THEN sorted
    ELSE SortByScore(Tail(entries), InsertByScore(sorted, Head(entries)))

\* filter_dict = {"user_id": user_id} and, when filter_source is given
\* (not None, not empty), {"source": filter_source}
FilterDict(metadata, user_id, filter_source) ==
    /\ metadata.user_id = user_id
    /\ filter_source # << >> => metadata.source = filter_source

\* The FetchK vectors of the index nearest to the query, nearest first.
NearestVectors(vector_store, query_text) ==
    Take(SortByScore([i \in 1..Len(vector_store.index) |->
                        [pos |-> i,
                         score |-> L2(vector_store.index[i], Embed(query_text))]],
                     << >>),
         FetchK)

\* The search raises: a vector it has fetched has no document.
SearchRaises(vector_store, query_text) ==
    \E e \in Range(NearestVectors(vector_store, query_text)) :
        e.pos > Len(vector_store.docstore)

\* vector_store.similarity_search_with_score(query_text, k, filter): the
\* documents of the FetchK nearest vectors, those of them the filter keeps,
\* the first k
SimilaritySearchWithScore(vector_store, query_text, k, user_id, filter_source) ==
    CHOOSE results \in
        { Take(SelectSeqBy(found, { e \in Range(found) :
                   FilterDict(e.doc.metadata, user_id, filter_source) }), k) :
          found \in
            { [i \in 1..Len(nearest) |->
                  [doc |-> vector_store.docstore[nearest[i].pos],
                   score |-> nearest[i].score]] :
              nearest \in { NearestVectors(vector_store, query_text) } } } : TRUE

\* formatted_results of search_user_embeddings
FormattedResults(results) ==
    [i \in 1..Len(results) |->
        [content |-> results[i].doc.page_content,
         metadata |-> results[i].doc.metadata,
         similarity_score |-> results[i].score]]

\* The two error results of search_user_embeddings.
SearchNoEmbeddings(user_id) ==
    [status |-> "error", error |-> << >>,
     message |-> <<"No embeddings found for user ">> \o user_id,
     results |-> << >>, total_results |-> 0]

SearchFailed(user_id, fault) ==
    [status |-> "error", error |-> <<fault>>,
     message |-> <<"Failed to search embeddings for user ">> \o user_id,
     results |-> << >>, total_results |-> 0]

\* search_user_embeddings from the loaded vector store to the return,
\* lines 146-180.  fault: "none" or "embed" (the embedding of the query
\* fails).
SearchLoaded(vector_store, query_text, user_id, k, filter_source, fault) ==
    IF fault = "embed" THEN SearchFailed(user_id, fault)
    ELSE IF SearchRaises(vector_store, query_text)
    THEN SearchFailed(user_id, "search")
    ELSE CHOOSE found \in
            { [status |-> "success", error |-> << >>, message |-> << >>,
               results |-> FormattedResults(results),
               total_results |-> Len(results)] :
              results \in { SimilaritySearchWithScore(
                                vector_store, query_text, k, user_id,
                                filter_source) } } : TRUE

\* search_user_embeddings(query_text, user_id, k, filter_source) on the
\* files `files`, with nothing else running between its load and its
\* return; fault is the failure the environment injects into the try block
\* ("none", "load" or "embed").
SearchUserEmbeddings(files, query_text, user_id, k, filter_source, fault) ==
    IF ~PathExists(files, VectorStorePath(user_id))
    THEN SearchNoEmbeddings(user_id)
    ELSE IF fault = "load" \/ ~LoadLocal(files, VectorStorePath(user_id)).ok
    THEN SearchFailed(user_id, "load")
    ELSE SearchLoaded(LoadLocal(files, VectorStorePath(user_id)).vector_store,
                      query_text, user_id, k, filter_source, fault)

\* sources of get_user_info: how many documents each source has
DataSources(all_docs) ==
    [s \in { all_docs[i].metadata.source : i \in 1..Len(all_docs) } |->
        Cardinality({ i \in 1..Len(all_docs) : all_docs[i].metadata.source = s })]

\* The two error results of get_user_info.
InfoNoEmbeddings(user_id) ==
    [status |-> "error",
     message |-> <<"No embeddings found for user ">> \o user_id,
     total_documents |-> 0, data_sources |-> << >>]

InfoFailed(user_id) ==
    [status |-> "error",
     message |-> <<"Failed to get info for user ">> \o user_id,
     total_documents |-> 0, data_sources |-> << >>]

\* get_user_info from the loaded vector store to the return, lines
\* 211-232; all_docs are the documents of the docstore
InfoLoaded(vector_store) ==
    [status |-> "success", message |-> << >>,
     total_documents |-> Len(vector_store.docstore),
     data_sources |-> DataSources(vector_store.docstore)]

\* get_user_info(user_id) on the files `files`, with nothing else running
\* between its load and its return
GetUserInfo(files, user_id, fault) ==
    IF ~PathExists(files, VectorStorePath(user_id))
    THEN InfoNoEmbeddings(user_id)
    ELSE IF fault # "none" \/ ~LoadLocal(files, VectorStorePath(user_id)).ok
    THEN InfoFailed(user_id)
    ELSE InfoLoaded(LoadLocal(files, VectorStorePath(user_id)).vector_store)

\* ------------------------------------------------------ retrieval tool ---
\* str(doc.metadata): Python's text of the metadata dict
MetadataText(metadata) ==
    <<"{'source': '">> \o metadata.source \o <<"', 'user_id': '">>
    \o metadata.user_id \o <<"', 'filename': '">> \o metadata.filename
    \o <<"'}">>

\* one block of the serialized context
SourceContentBlock(doc) ==
    <<"Source: ">> \o MetadataText(doc.metadata) \o <<"\nContent: ">>
    \o doc.page_content

RECURSIVE ConcatBlocks(_)
\* Blocks put one after the other with nothing between them.
ConcatBlocks(blocks) ==
    IF blocks = << >> THEN << >>
    ELSE Head(blocks) \o ConcatBlocks(Tail(blocks))

RECURSIVE JoinBlocks(_)
\* "\n\n".join(blocks)
JoinBlocks(blocks) ==
    IF blocks = << >> THEN << >>
    ELSE IF Len(blocks) = 1 THEN Head(blocks)
    ELSE Head(blocks) \o <<"\n\n">> \o JoinBlocks(Tail(blocks))

\* k of the search retrieve_context makes
RetrieveK == 3

\* retrieve_context(query, user_id): <<serialized, retrieved_docs>>
RetrieveDocs(search_results) ==
    [i \in 1..Len(search_results.results) |->
        [page_content |-> search_results.results[i].content,
         metadata |-> search_results.results[i].metadata]]

RetrieveSerialized(retrieved_docs) ==
    JoinBlocks([i \in 1..Len(retrieved_docs) |->
                   SourceContentBlock(retrieved_docs[i])])

\* retrieve_context from the result of its search to its return, lines
\* 28-47: <<serialized, retrieved_docs>>
RetrieveReturn(search_results, user_id) ==
    IF search_results.status = "error"
    THEN << <<"No documents found for user ">> \o user_id \o <<": ">>
            \o search_results.message, << >> >>
    ELSE CHOOSE out \in
            { << RetrieveSerialized(retrieved_docs), retrieved_docs >> :
              retrieved_docs \in { RetrieveDocs(search_results) } } : TRUE

\* retrieve_context(query, user_id) on the files `files`, with nothing
\* else running between the load of the index and the return.
RetrieveContext(files, query, user_id, fault) ==
    RetrieveReturn(SearchUserEmbeddings(files, query, user_id, RetrieveK,
                                        << >>, fault),
                   user_id)

\* ------------------------------------------------------ session memory ---
\* One thread for every user: the id is left out of the key.
ThreadIdShared(user_id) == <<"user_">>

\* get_user_config(user_id)["configurable"]["thread_id"]
ThreadId(user_id) == <<"user_">> \o user_id

\* enhanced_query of ask_question
EnhancedQuery(query, user_id) ==
    <<"User '">> \o user_id \o <<"' is asking: ">> \o query
    \o <<". Please retrieve and analyze their relevant documents.">>

\* --------------------------------------------------------------- state ---
VARIABLES
    disk,      \* durable storage: the directories and files under their paths
    memory,    \* MemorySaver: thread id -> messages of the latest checkpoint
    pc,        \* where each caller is in the operation it runs
    loc,       \* each caller's local variables, and what its last call returned
               \* (effects: the capabilities the call has called so far,
               \* "storage" for load_local and save_local, "embedding",
               \* "generation", and "memory" for the checkpointer)
    loopBusy,  \* the server's event loop is inside a request handler
    calls,     \* operations invoked so far
    stored     \* history: the user ids a store has returned success for

vars == <<disk, memory, pc, loc, loopBusy, calls, stored>>

\* Local variables of a caller outside any operation.
NoLocals ==
    [kind |-> "none", via |-> "none", turn |-> 0,
     user_id |-> << >>, query |-> << >>, file_path |-> << >>,
     text_content |-> << >>, k |-> 0, filter_source |-> << >>,
     vector_store |-> EmptyStore, stage |-> "none",
     messages |-> << >>, loaded |-> << >>,
     response_content |-> << >>, rounds |-> 0, steps |-> 0,
     effects |-> { },
     result |-> [status |-> "none"]]

Init ==
    /\ disk = SourceDisk
    /\ memory = << >>
    /\ pc = [w \in Workers |-> "idle"]
    /\ loc = [w \in Workers |-> NoLocals]
    /\ loopBusy = FALSE
    /\ calls = 0
    /\ stored = { }

\* Caller w takes the next call: it is idle, and so that one schedule stands
\* for all that differ only in which idle caller runs, it is the first idle.
Free(w) ==
    /\ pc[w] = "idle" /\ calls < MaxCalls
    /\ \A v \in Workers : v < w => pc[v] # "idle"

\* The locals of caller w at the start of a call.
Begin(kind, via, user_id) ==
    [NoLocals EXCEPT !.kind = kind, !.via = via, !.turn = calls + 1,
                     !.user_id = user_id]

\* The locals of a caller whose call has returned: the arguments, what the
\* call touched and what it returned; the rest is gone with the frame.
Returned(l, touched, result) ==
    [NoLocals EXCEPT !.kind = l.kind, !.via = l.via, !.turn = l.turn,
                     !.user_id = l.user_id, !.query = l.query,
                     !.file_path = l.file_path,
                     !.effects = l.effects \cup touched, !.result = result]

\* ---------------------------------------------------- index operations ---
\* store_user_embedding from the call to the first os.mkdir of
\* os.makedirs, lines 30-56: the data source, the test and the read of the
\* file, and the first directory of user_dir that is not there yet.
\* os.makedirs makes the directories of user_dir one os.mkdir at a time.
\* fault: "none" or "read" (the file cannot be read).  os.makedirs is
\* outside the try: what it raises leaves the function.
StoreUserEmbeddingCall(w, user_id, file_path, fault) ==
    LET start == [Begin("store", "direct", user_id) EXCEPT !.file_path = file_path]
        error(text) ==
            [start EXCEPT !.result = [status |-> "error", error |-> text]]
    IN  /\ Free(w)
        /\ calls' = calls + 1
        /\ UNCHANGED <<memory, loopBusy, stored>>
        /\ \E read \in { ReadText(disk, file_path) },
              made \in { MakeDir(disk, UserDir(user_id)) } :
              IF ~PathExists(disk, file_path)
              THEN /\ loc' = [loc EXCEPT ![w] =
                                 error(<<"File not found: ">> \o file_path)]
                   /\ UNCHANGED <<disk, pc>>
              ELSE IF fault = "read" \/ ~read.ok
              THEN /\ loc' = [loc EXCEPT ![w] =
                                 error(<<"Error reading file ">> \o file_path)]
                   /\ UNCHANGED <<disk, pc>>
              ELSE IF ~made.ok
              THEN /\ loc' = [loc EXCEPT ![w] =
                                 [start EXCEPT !.result = [status |-> "raised",
                                                           error |-> <<"OSError">>]]]
                   /\ disk' = made.files
                   /\ pc' = pc
              ELSE /\ loc' = [loc EXCEPT ![w] =
                                 [start EXCEPT !.text_content = read.text_content]]
                   /\ disk' = made.files
                   /\ pc' = [pc EXCEPT ![w] =
                                IF DirsMade(made.files, UserDir(user_id))
                                THEN "store_called" ELSE "store_making"]

\* store_user_embedding inside os.makedirs, line 56: the next os.mkdir, of
\* the first directory of user_dir that is not there now.
StoreUserEmbeddingMakeDir(w) ==
    LET l == loc[w]
    IN  /\ pc[w] = "store_making"
        /\ UNCHANGED <<memory, loopBusy, calls, stored>>
        /\ \E made \in { MakeDir(disk, UserDir(l.user_id)) } :
              IF ~made.ok
              THEN /\ loc' = [loc EXCEPT ![w] =
                                 Returned(l, { }, [status |-> "raised",
                                                   error |-> <<"OSError">>])]
                   /\ disk' = made.files
                   /\ pc' = [pc EXCEPT ![w] = "idle"]
              ELSE /\ loc' = loc
                   /\ disk' = made.files
                   /\ pc' = [pc EXCEPT ![w] =
                                IF DirsMade(made.files, UserDir(l.user_id))
                                THEN "store_called" ELSE "store_making"]

\* store_user_embedding from the test of the index path to the first read
\* of load_local, or to the probing embed_query when the path does not
\* exist, lines 59-81.  Nothing removes an index path, so the test at line
\* 73 gives at the read what it gave when it was made.
\* fault: "none" or "load" (the read of index.faiss fails).
StoreUserEmbeddingLoad(w, fault) ==
    LET l == loc[w]
    IN  /\ pc[w] = "store_called"
        /\ UNCHANGED <<disk, memory, loopBusy, calls, stored>>
        /\ \E first \in { ReadIndex(disk, VectorStorePath(l.user_id)) } :
              IF ~PathExists(disk, VectorStorePath(l.user_id))
              THEN /\ loc' = [loc EXCEPT ![w].effects = {"embedding"}]
                   /\ pc' = [pc EXCEPT ![w] = "store_probing"]
              ELSE IF fault = "load" \/ ~first.ok
              THEN /\ loc' = [loc EXCEPT ![w] =
                                 Returned(l, {"storage"},
                                          [status |-> "error", error |-> <<"load">>])]
                   /\ pc' = [pc EXCEPT ![w] = "idle"]
              ELSE /\ loc' = [loc EXCEPT ![w] =
                                 [l EXCEPT !.effects = {"storage"},
                                           !.vector_store =
                                               [index |-> first.index,
                                                docstore |-> << >>]]]
                   /\ pc' = [pc EXCEPT ![w] = "store_reading"]

\* store_user_embedding, the second read of load_local, lines 74-78: the
\* documents of index.pkl as they are now join the vectors read before;
\* add_documents then asks for the embedding of the document.
\* fault: "none" or "load".
StoreUserEmbeddingReadDocstore(w, fault) ==
    LET l == loc[w]
    IN  /\ pc[w] = "store_reading"
        /\ UNCHANGED <<disk, memory, loopBusy, calls, stored>>
        /\ \E second \in { ReadDocstore(disk, VectorStorePath(l.user_id)) } :
              IF fault = "load" \/ ~second.ok
              THEN /\ loc' = [loc EXCEPT ![w] =
                                 Returned(l, { }, [status |-> "error",
                                                   error |-> <<"load">>])]
                   /\ pc' = [pc EXCEPT ![w] = "idle"]
              ELSE /\ loc' = [loc EXCEPT ![w] =
                                 [l EXCEPT !.vector_store.docstore = second.docstore,
                                           !.effects = @ \cup {"embedding"}]]
                   /\ pc' = [pc EXCEPT ![w] = "store_loaded"]

\* store_user_embedding for a user without an index, lines 79-93: the
\* probing embed_query returns, the vector store is made with nothing in
\* it, and add_documents asks for the embedding of the document.
\* fault: "none" or "embed".
StoreUserEmbeddingProbe(w, fault) ==
    LET l == loc[w]
    IN  /\ pc[w] = "store_probing"
        /\ UNCHANGED <<disk, memory, loopBusy, calls, stored>>
        /\ IF fault = "embed"
           THEN /\ loc' = [loc EXCEPT ![w] =
                              Returned(l, { }, [status |-> "error",
                                                error |-> <<fault>>])]
                /\ pc' = [pc EXCEPT ![w] = "idle"]
           ELSE /\ loc' = [loc EXCEPT ![w].vector_store = EmptyStore]
                /\ pc' = [pc EXCEPT ![w] = "store_loaded"]

\* A store that holds the user's index from load to save: the document is
\* added to what the files hold when it is saved.
StoreUserEmbeddingSaveLocked(w, fault) ==
    LET l == loc[w]
        document == Document(l.text_content, DataSource(l.file_path),
                             l.user_id, l.file_path)
        current == LoadLocal(disk, VectorStorePath(l.user_id)).vector_store
        added == AddDocuments(current, document, l.turn)
    IN  /\ pc[w] = "store_loaded"
        /\ pc' = [pc EXCEPT ![w] = "store_saving"]
        /\ UNCHANGED <<memory, loopBusy, calls, stored>>
        /\ disk' = WriteIndex(disk, VectorStorePath(l.user_id), added, "none").files
        /\ loc' = [loc EXCEPT ![w] =
              [l EXCEPT !.vector_store = added, !.effects = @ \cup {"storage"}]]

\* store_user_embedding from the fresh id to the first write of save_local,
\* lines 89-96: the embedding of the document has come, add_documents adds
\* the document, save_local makes the folder and writes index.faiss.
\* The id is the number of the call: unique, as a uuid4 is.
\* fault: "none", "embed" (add_documents fails), or a fault of WriteIndex.
StoreUserEmbeddingSave(w, fault) ==
    LET l == loc[w]
        document == Document(l.text_content, DataSource(l.file_path),
                             l.user_id, l.file_path)
        added == AddDocuments(l.vector_store, document, l.turn)
        indexed == WriteIndex(disk, VectorStorePath(l.user_id), added, fault)
    IN  /\ pc[w] = "store_loaded"
        /\ UNCHANGED <<memory, loopBusy, calls, stored>>
        /\ IF fault = "embed"
           THEN /\ disk' = disk
                /\ pc' = [pc EXCEPT ![w] = "idle"]
                /\ loc' = [loc EXCEPT ![w] =
                              Returned(l, { }, [status |-> "error",
                                                error |-> <<fault>>])]
           ELSE IF ~indexed.ok
           THEN /\ disk' = indexed.files
                /\ pc' = [pc EXCEPT ![w] = "idle"]
                /\ loc' = [loc EXCEPT ![w] =
                              Returned(l, {"storage"}, [status |-> "error",
                                                        error |-> <<"save">>])]
           ELSE /\ disk' = indexed.files
                /\ pc' = [pc EXCEPT ![w] = "store_saving"]
                /\ loc' = [loc EXCEPT ![w] =
                              [l EXCEPT !.vector_store = added,
                                        !.effects = @ \cup {"storage"}]]

\* store_user_embedding from the second write of save_local to the return,
\* lines 96-112: index.pkl is written with the documents of the caller's
\* vector store.  fault: a fault of WriteDocstore.
StoreUserEmbeddingWriteDocstore(w, fault) ==
    LET l == loc[w]
        written == WriteDocstore(disk, VectorStorePath(l.user_id),
                                 l.vector_store, fault)
    IN  /\ pc[w] = "store_saving"
        /\ pc' = [pc EXCEPT ![w] = "idle"]
        /\ UNCHANGED <<memory, loopBusy, calls>>
        /\ disk' = written.files
        /\ IF ~written.ok
           THEN /\ stored' = stored
                /\ loc' = [loc EXCEPT ![w] =
                              Returned(l, { }, [status |-> "error",
                                                error |-> <<"save">>])]
           ELSE /\ stored' = stored \cup {l.user_id}
                /\ loc' = [loc EXCEPT ![w] =
                              Returned(l, { },
                                       [status |-> "success",
                                        document_id |-> l.turn,
                                        user_id |-> l.user_id,
                                        data_source |-> DataSource(l.file_path),
                                        storage_path |-> VectorStorePath(l.user_id)])]

\* The documents persisted now at the index path of a user, with their
\* vectors; none when no index can be loaded from there.
PersistedIndex(files, user_id) ==
    Entries(LoadLocal(files, VectorStorePath(user_id)).vector_store)

PersistedIndexOf(user_id) == PersistedIndex(disk, user_id)

\* search_user_embeddings(query_text, user_id, k, filter_source) up to the
\* first read of load_local, lines 129-140.  fault: "none" or "load".
SearchCall(w, user_id, query_text, k, filter_source, fault) ==
    LET start == [Begin("search", "direct", user_id) EXCEPT
                     !.query = query_text, !.k = k,
                     !.filter_source = filter_source]
    IN  /\ Free(w)
        /\ calls' = calls + 1
        /\ UNCHANGED <<disk, memory, loopBusy, stored>>
        /\ \E first \in { ReadIndex(disk, VectorStorePath(user_id)) } :
              IF ~PathExists(disk, VectorStorePath(user_id))
              THEN /\ loc' = [loc EXCEPT ![w] =
                                 [start EXCEPT !.result = SearchNoEmbeddings(user_id)]]
                   /\ pc' = pc
              ELSE IF fault = "load" \/ ~first.ok
              THEN /\ loc' = [loc EXCEPT ![w] =
                                 [start EXCEPT !.effects = {"storage"},
                                               !.result = SearchFailed(user_id, "load")]]
                   /\ pc' = pc
              ELSE /\ loc' = [loc EXCEPT ![w] =
                                 [start EXCEPT !.effects = {"storage"},
                                               !.vector_store =
                                                   [index |-> first.index,
                                                    docstore |-> << >>]]]
                   /\ pc' = [pc EXCEPT ![w] = "search_reading"]

\* search_user_embeddings, the second read of load_local, lines 140-144:
\* the documents of index.pkl as they are now; the search then asks for
\* the embedding of the query.  fault: "none" or "load".
SearchReadDocstore(w, fault) ==
    LET l == loc[w]
    IN  /\ pc[w] = "search_reading"
        /\ UNCHANGED <<disk, memory, loopBusy, calls, stored>>
        /\ \E second \in { ReadDocstore(disk, VectorStorePath(l.user_id)) } :
              IF fault = "load" \/ ~second.ok
              THEN /\ loc' = [loc EXCEPT ![w] =
                                 [l EXCEPT !.result = SearchFailed(l.user_id, "load")]]
                   /\ pc' = [pc EXCEPT ![w] = "idle"]
              ELSE /\ loc' = [loc EXCEPT ![w] =
                                 [l EXCEPT !.vector_store.docstore = second.docstore,
                                           !.effects = @ \cup {"embedding"}]]
                   /\ pc' = [pc EXCEPT ![w] = "search_loaded"]

\* search_user_embeddings from the loaded vector store to the return: the
\* query is embedded and the loaded index searched.  fault: "none" or
\* "embed".
SearchReturn(w, fault) ==
    LET l == loc[w]
    IN  /\ pc[w] = "search_loaded"
        /\ pc' = [pc EXCEPT ![w] = "idle"]
        /\ loc' = [loc EXCEPT ![w] =
              [l EXCEPT !.result = SearchLoaded(l.vector_store, l.query, l.user_id,
                                                l.k, l.filter_source, fault)]]
        /\ UNCHANGED <<disk, memory, loopBusy, calls, stored>>

\* get_user_info(user_id) up to the first read of load_local, lines
\* 194-205.  fault: "none" or "load".
DescribeCall(w, user_id, fault) ==
    LET start == Begin("describe", "direct", user_id)
    IN  /\ Free(w)
        /\ calls' = calls + 1
        /\ UNCHANGED <<disk, memory, loopBusy, stored>>
        /\ \E first \in { ReadIndex(disk, VectorStorePath(user_id)) } :
              IF ~PathExists(disk, VectorStorePath(user_id))
              THEN /\ loc' = [loc EXCEPT ![w] =
                                 [start EXCEPT !.result = InfoNoEmbeddings(user_id)]]
                   /\ pc' = pc
              ELSE IF fault = "load" \/ ~first.ok
              THEN /\ loc' = [loc EXCEPT ![w] =
                                 [start EXCEPT !.effects = {"storage"},
                                               !.result = InfoFailed(user_id)]]
                   /\ pc' = pc
              ELSE /\ loc' = [loc EXCEPT ![w] =
                                 [start EXCEPT !.effects = {"storage"},
                                               !.vector_store =
                                                   [index |-> first.index,
                                                    docstore |-> << >>]]]
                   /\ pc' = [pc EXCEPT ![w] = "describe_reading"]

\* get_user_info from the second read of load_local to the return, lines
\* 205-240.  fault: "none" or "load".
DescribeReturn(w, fault) ==
    LET l == loc[w]
    IN  /\ pc[w] = "describe_reading"
        /\ pc' = [pc EXCEPT ![w] = "idle"]
        /\ UNCHANGED <<disk, memory, loopBusy, calls, stored>>
        /\ \E second \in { ReadDocstore(disk, VectorStorePath(l.user_id)) } :
              loc' = [loc EXCEPT ![w] =
                  IF fault = "load" \/ ~second.ok
                  THEN [l EXCEPT !.result = InfoFailed(l.user_id)]
                  ELSE [l EXCEPT !.vector_store.docstore = second.docstore,
                                 !.result = InfoLoaded(
                                     [l.vector_store EXCEPT
                                         !.docstore = second.docstore])]]

\* A clear that drops the thread of the user.
ClearConversationErasing(w, user_id) ==
    /\ Free(w)
    /\ calls' = calls + 1
    /\ loc' = [loc EXCEPT ![w] =
          [Begin("clear", "direct", user_id) EXCEPT !.result = [status |-> "returned"]]]
    /\ memory' = [t \in DOMAIN memory \ {ThreadId(user_id)} |-> memory[t]]
    /\ UNCHANGED <<disk, pc, loopBusy, stored>>

\* clear_conversation(user_id): prints, and changes nothing
ClearConversation(w, user_id) ==
    /\ Free(w)
    /\ calls' = calls + 1
    /\ loc' = [loc EXCEPT ![w] =
          [Begin("clear", "direct", user_id) EXCEPT !.result = [status |-> "returned"]]]
    /\ UNCHANGED <<disk, memory, pc, loopBusy, stored>>

\* ---------------------------------------------------------- agent turn ---
HumanMessage(content, turn, user_id) ==
    [role |-> "human", content |-> content, tool_calls |-> << >>,
     artifact |-> << >>, turn |-> turn, by |-> user_id]

AIMessage(content, tool_calls, turn, user_id) ==
    [role |-> "ai", content |-> content, tool_calls |-> tool_calls,
     artifact |-> << >>, turn |-> turn, by |-> user_id]

ToolMessage(content, artifact, tool_call, turn, user_id) ==
    [role |-> "tool", content |-> content, tool_calls |-> <<tool_call>>,
     artifact |-> artifact, turn |-> turn, by |-> user_id]

\* A put that adds the run's newest message to what the thread holds now.
PutCheckpointMerged(saved, thread_id, messages) ==
    (thread_id :>
        Append(IF thread_id \in DOMAIN saved THEN saved[thread_id] ELSE << >>,
               Last(messages))) @@ saved

\* The checkpointer's put: the thread's latest checkpoint becomes the
\* messages of the run that writes it.
PutCheckpoint(saved, thread_id, messages) ==
    (thread_id :> messages) @@ saved

\* The checkpointer's get at the start of a run.
GetCheckpoint(saved, thread_id) ==
    IF thread_id \in DOMAIN saved THEN saved[thread_id] ELSE << >>

\* The body of ask_question's loop over the streamed values, lines 131-135.
CollectContent(response_content, messages) ==
    IF Len(messages) > 0 /\ Last(messages).content # << >>
    THEN Append(response_content, Last(messages).content)
    ELSE response_content

\* The return of ask_question, lines 138-141.
AskReturn(response_content) ==
    IF response_content # << >> THEN Last(response_content)
    ELSE <<"I apologize, but I couldn't generate a response. Please try again.">>

\* ask_question(query, user_id) up to the first streamed value: the run
\* loads the thread's checkpoint, adds the user's message and saves.
AskQuestionStart(w, query, user_id, via) ==
    LET thread_id == ThreadId(user_id)
        loaded == GetCheckpoint(memory, thread_id)
        messages == Append(loaded,
                       HumanMessage(EnhancedQuery(query, user_id), calls + 1, user_id))
    IN  /\ memory' = PutCheckpoint(memory, thread_id, messages)
        /\ loc' = [loc EXCEPT ![w] =
              [Begin("ask", via, user_id) EXCEPT
                  !.query = query, !.loaded = loaded, !.messages = messages,
                  !.effects = {"memory"},
                  !.response_content = CollectContent(<< >>, messages)]]
        /\ pc' = [pc EXCEPT ![w] = "AWAITING_DECISION"]

\* A direct call of ask_question(query, user_id).
AskQuestion(w, query, user_id) ==
    /\ Free(w)
    /\ calls' = calls + 1
    /\ AskQuestionStart(w, query, user_id, "direct")
    /\ UNCHANGED <<disk, loopBusy, stored>>

\* POST /chat/agent: the handler runs on the event loop and does not
\* yield it before it returns.
AskQuestionEndpoint(w, user_id, query) ==
    /\ Free(w) /\ ~loopBusy
    /\ calls' = calls + 1
    /\ UNCHANGED <<disk, stored>>
    /\ IF IsBlank(query) \/ IsBlank(user_id)
       THEN /\ loc' = [loc EXCEPT ![w] =
                  [Begin("ask", "endpoint", user_id) EXCEPT
                      !.query = query,
                      !.result = [status |-> "400",
                                  detail |-> IF IsBlank(query)
                                             THEN <<"Query cannot be empty">>
                                             ELSE <<"User ID cannot be empty">>]]]
            /\ UNCHANGED <<memory, pc, loopBusy>>
       ELSE /\ AskQuestionStart(w, query, user_id, "endpoint")
            /\ loopBusy' = TRUE

\* What the caller of the turn gets when the stream ends.
TurnResult(l, response_content) ==
    IF l.via = "endpoint"
    THEN [status |-> "200", response |-> AskReturn(response_content)]
    ELSE [status |-> "returned", response |-> AskReturn(response_content)]

\* What the caller gets when the generation capability fails.
TurnFailure(l) ==
    IF l.via = "endpoint"
    THEN [status |-> "500", detail |-> <<"Error processing query: ">>]
    ELSE [status |-> "raised", detail |-> <<"GenerationServiceError">>]

\* What the caller gets when the run is out of steps: GraphRecursionError
\* leaves agent.stream and ask_question, which do not catch it.
TurnOutOfSteps(l) ==
    IF l.via = "endpoint"
    THEN [status |-> "500",
          detail |-> <<"Error processing query: ", "Recursion limit reached">>]
    ELSE [status |-> "raised", detail |-> <<"GraphRecursionError">>]

\* The run may take one more step: a call of the capability and a run of
\* the tool are one step each, and a run is given RecursionLimit of them.
CanStep(l) == l.steps < RecursionLimit

\* AWAITING_DECISION, (b): the capability asks for the tool, with
\* arguments of its own choice.
ModelRequestsTool(w, query, user_id) ==
    LET l == loc[w]
        messages == Append(l.messages,
                       AIMessage(<< >>, <<[query |-> query, user_id |-> user_id]>>,
                                 l.turn, l.user_id))
    IN  /\ pc[w] = "AWAITING_DECISION" /\ CanStep(l)
        /\ memory' = PutCheckpoint(memory, ThreadId(l.user_id), messages)
        /\ loc' = [loc EXCEPT ![w] =
              [l EXCEPT !.messages = messages, !.rounds = @ + 1,
                        !.steps = @ + 1,
                        !.effects = @ \cup {"generation"},
                        !.response_content = CollectContent(@, messages)]]
        /\ pc' = [pc EXCEPT ![w] = "TOOL_EXECUTING"]
        /\ UNCHANGED <<disk, loopBusy, calls, stored>>

\* A tool step that goes back to the capability without a tool result.
ToolSkipped(w, fault) ==
    /\ pc[w] = "TOOL_EXECUTING" /\ loc[w].stage = "loaded"
    /\ pc' = [pc EXCEPT ![w] = "AWAITING_DECISION"]
    /\ loc' = [loc EXCEPT ![w].stage = "none", ![w].vector_store = EmptyStore]
    /\ UNCHANGED <<disk, memory, loopBusy, calls, stored>>

\* The output of retrieve_context joins the messages as the tool's result;
\* touched are the capabilities the last step of the search has called.
ToolResult(w, search_results, touched) ==
    LET l == loc[w]
        tool_call == Last(l.messages).tool_calls[1]
    IN  \E out \in { RetrieveReturn(search_results, tool_call.user_id) } :
        \E messages \in { Append(l.messages,
                             ToolMessage(out[1], out[2], tool_call,
                                         l.turn, l.user_id)) } :
            /\ memory' = PutCheckpoint(memory, ThreadId(l.user_id), messages)
            /\ loc' = [loc EXCEPT ![w] =
                  [l EXCEPT !.messages = messages,
                            !.vector_store = EmptyStore, !.stage = "none",
                            !.steps = @ + 1,
                            !.effects = @ \cup touched,
                            !.response_content = CollectContent(@, messages)]]
            /\ pc' = [pc EXCEPT ![w] = "AWAITING_DECISION"]

\* TOOL_EXECUTING: retrieve_context runs with the requested arguments, up
\* to the first read of the load_local of its search.  Without an index
\* path the search returns at once, and with it the tool.
\* fault: "none" or "load".
ToolLoads(w, fault) ==
    LET l == loc[w]
        tool_call == Last(l.messages).tool_calls[1]
    IN  /\ pc[w] = "TOOL_EXECUTING" /\ l.stage = "none" /\ CanStep(l)
        /\ \E first \in { ReadIndex(disk, VectorStorePath(tool_call.user_id)) } :
              IF ~PathExists(disk, VectorStorePath(tool_call.user_id))
              THEN ToolResult(w, SearchNoEmbeddings(tool_call.user_id), { })
              ELSE IF fault = "load" \/ ~first.ok
              THEN ToolResult(w, SearchFailed(tool_call.user_id, "load"),
                              {"storage"})
              ELSE /\ loc' = [loc EXCEPT ![w] =
                                 [l EXCEPT !.vector_store =
                                               [index |-> first.index,
                                                docstore |-> << >>],
                                           !.stage = "reading",
                                           !.effects = @ \cup {"storage"}]]
                   /\ UNCHANGED <<memory, pc>>
        /\ UNCHANGED <<disk, loopBusy, calls, stored>>

\* TOOL_EXECUTING: the second read of the load_local of the search; the
\* search then asks for the embedding of the query.
\* fault: "none" or "load".
ToolReadsDocstore(w, fault) ==
    LET l == loc[w]
        tool_call == Last(l.messages).tool_calls[1]
    IN  /\ pc[w] = "TOOL_EXECUTING" /\ l.stage = "reading"
        /\ \E second \in { ReadDocstore(disk, VectorStorePath(tool_call.user_id)) } :
              IF fault = "load" \/ ~second.ok
              THEN ToolResult(w, SearchFailed(tool_call.user_id, "load"), { })
              ELSE /\ loc' = [loc EXCEPT ![w] =
                                 [l EXCEPT !.vector_store.docstore = second.docstore,
                                           !.stage = "loaded",
                                           !.effects = @ \cup {"embedding"}]]
                   /\ UNCHANGED <<memory, pc>>
        /\ UNCHANGED <<disk, loopBusy, calls, stored>>

\* TOOL_EXECUTING: the search of retrieve_context, after the wait for the
\* embedding of the query, goes on with the index it has loaded, and the
\* tool's output joins the messages.  fault: "none" or "embed".
ToolExecutes(w, fault) ==
    LET l == loc[w]
        tool_call == Last(l.messages).tool_calls[1]
    IN  /\ pc[w] = "TOOL_EXECUTING" /\ l.stage = "loaded"
        /\ \E search_results \in
                  { SearchLoaded(l.vector_store, tool_call.query,
                                 tool_call.user_id, RetrieveK, << >>, fault) } :
              ToolResult(w, search_results, { })
        /\ UNCHANGED <<disk, loopBusy, calls, stored>>

\* AWAITING_DECISION, (a): the capability answers; the stream ends and
\* ask_question returns.
ModelAnswers(w, content) ==
    LET l == loc[w]
        messages == Append(l.messages, AIMessage(content, << >>, l.turn, l.user_id))
        response_content == CollectContent(l.response_content, messages)
    IN  /\ pc[w] = "AWAITING_DECISION" /\ CanStep(l)
        /\ memory' = PutCheckpoint(memory, ThreadId(l.user_id), messages)
        /\ loc' = [loc EXCEPT ![w] =
              Returned(l, {"generation"}, TurnResult(l, response_content))]
        /\ pc' = [pc EXCEPT ![w] = "idle"]
        /\ loopBusy' = IF l.via = "endpoint" THEN FALSE ELSE loopBusy
        /\ UNCHANGED <<disk, calls, stored>>

\* AWAITING_DECISION: the capability fails and the error leaves the turn.
ModelFails(w) ==
    LET l == loc[w]
    IN  /\ pc[w] = "AWAITING_DECISION" /\ CanStep(l)
        /\ loc' = [loc EXCEPT ![w] = Returned(l, {"generation"}, TurnFailure(l))]
        /\ pc' = [pc EXCEPT ![w] = "idle"]
        /\ loopBusy' = IF l.via = "endpoint" THEN FALSE ELSE loopBusy
        /\ UNCHANGED <<disk, memory, calls, stored>>

\* The run has taken RecursionLimit steps and the turn is not over: the
\* stream raises GraphRecursionError before the next step starts.
RecursionLimitReached(w) ==
    LET l == loc[w]
    IN  /\ \/ pc[w] = "AWAITING_DECISION"
           \/ pc[w] = "TOOL_EXECUTING" /\ l.stage = "none"
        /\ ~CanStep(l)
        /\ loc' = [loc EXCEPT ![w] = Returned(l, { }, TurnOutOfSteps(l))]
        /\ pc' = [pc EXCEPT ![w] = "idle"]
        /\ loopBusy' = IF l.via = "endpoint" THEN FALSE ELSE loopBusy
        /\ UNCHANGED <<disk, memory, calls, stored>>

\* ------------------------------------------------------ specifications ---
\* Failures the environment injects into a call.
ReadFaults == {"none", "read"}
LoadFaults == {"none", "load"}
EmbedFaults == {"none", "embed"}
\* of a save that fails before it writes
SaveFaults == {"none", "embed", "save"}
\* of a save up to its first file, and of its second file
WriteFaults == SaveFaults \cup {"mkdir", "index"}
DocstoreFaults == {"none", "write", "docstore"}

\* Arguments of the index operations.
IndexUserIds == { <<"a">>, <<"b">>, <<".", "/", "a">> }
Ks == {1, 3}
SearchUserIds == { <<"a">>, <<".", "/", "a">> }
FilterSources == { << >>, <<"txt">> }

\* Arguments of ask, and of the tool requests of the capability.
AskUserIds == { <<"a">>, <<"b">>, << >> }
AskQueries == { <<"q">>, <<" ">> }
ToolUserIds == { <<"a">>, <<".", "/", "a">> }

\* The vector index store under concurrent callers.
NextIndex ==
    \E w \in Workers :
        \/ \E u \in IndexUserIds, f \in FilePaths, x \in ReadFaults :
              StoreUserEmbeddingCall(w, u, f, x)
        \/ StoreUserEmbeddingMakeDir(w)
        \/ \E x \in LoadFaults : StoreUserEmbeddingLoad(w, x)
        \/ \E x \in LoadFaults : StoreUserEmbeddingReadDocstore(w, x)
        \/ \E x \in EmbedFaults : StoreUserEmbeddingProbe(w, x)
        \/ \E x \in SaveFaults : StoreUserEmbeddingSave(w, x)
        \/ StoreUserEmbeddingWriteDocstore(w, "none")
        \/ \E u \in IndexUserIds, q \in Queries, k \in Ks, s \in FilterSources,
                 x \in LoadFaults : SearchCall(w, u, q, k, s, x)
        \/ \E x \in LoadFaults : SearchReadDocstore(w, x)
        \/ \E x \in EmbedFaults : SearchReturn(w, x)
        \/ \E u \in IndexUserIds, x \in LoadFaults : DescribeCall(w, u, x)
        \/ \E x \in LoadFaults : DescribeReturn(w, x)
        \/ \E u \in IndexUserIds : ClearConversation(w, u)

SpecIndex == Init /\ [][NextIndex]_vars

\* Stores of user "a" and of "./a", whose records share a's index folder,
\* and searches of "a", with no failure injected.  The two ids store the
\* same files, so the searches of "./a" are those of "a" with the ids
\* exchanged.
NextSearch ==
    \E w \in Workers :
        \/ \E u \in SearchUserIds, f \in SourceFiles :
              StoreUserEmbeddingCall(w, u, f, "none")
        \/ StoreUserEmbeddingMakeDir(w)
        \/ StoreUserEmbeddingLoad(w, "none")
        \/ StoreUserEmbeddingReadDocstore(w, "none")
        \/ StoreUserEmbeddingProbe(w, "none")
        \/ StoreUserEmbeddingSave(w, "none")
        \/ StoreUserEmbeddingWriteDocstore(w, "none")
        \/ \E k \in Ks, s \in FilterSources :
              SearchCall(w, <<"a">>, <<"q">>, k, s, "none")
        \/ SearchReadDocstore(w, "none")
        \/ SearchReturn(w, "none")

SearchSpec == Init /\ [][NextSearch]_vars

\* The index of user "a" under every failure of its storage and of the
\* embedding capability.
\* User ids of the stores: "a", an id that names the index folder of "a" as
\* its directory, and an id that names a file of that folder.
FaultUserIds ==
    { <<"a">>,
      <<"a", "/", "a", "_faiss_index">>,
      <<"a", "/", "a", "_faiss_index", "/", "index", ".", "pkl">> }

\* File paths of the stores: a source file, the same file by another
\* spelling, a path that names nothing, and a directory.
FaultFilePaths ==
    { <<"n", ".", "PDF">>, <<".", "/", "p", ".", "txt">>,
      <<"gone", ".", "txt">>, <<"user_embeddings">> }

NextFault ==
    \E w \in Workers :
        \/ \E u \in FaultUserIds, f \in FaultFilePaths, x \in ReadFaults :
              StoreUserEmbeddingCall(w, u, f, x)
        \/ StoreUserEmbeddingMakeDir(w)
        \/ \E x \in LoadFaults : StoreUserEmbeddingLoad(w, x)
        \/ \E x \in LoadFaults : StoreUserEmbeddingReadDocstore(w, x)
        \/ \E x \in EmbedFaults : StoreUserEmbeddingProbe(w, x)
        \/ \E x \in WriteFaults : StoreUserEmbeddingSave(w, x)
        \/ \E x \in DocstoreFaults : StoreUserEmbeddingWriteDocstore(w, x)
        \/ \E x \in LoadFaults : SearchCall(w, <<"a">>, <<"q">>, 3, << >>, x)
        \/ \E x \in LoadFaults : SearchReadDocstore(w, x)
        \/ \E x \in EmbedFaults : SearchReturn(w, x)
        \/ \E x \in LoadFaults : DescribeCall(w, <<"a">>, x)
        \/ \E x \in LoadFaults : DescribeReturn(w, x)

FaultSpec == Init /\ [][NextFault]_vars

\* Searches of user "a" beside stores called with "./a", over one document
\* of "a" persisted earlier: no store is called with the user id "a".
NextAlias ==
    \E w \in Workers :
        \/ \E f \in SourceFiles :
              StoreUserEmbeddingCall(w, <<".", "/", "a">>, f, "none")
        \/ StoreUserEmbeddingLoad(w, "none")
        \/ StoreUserEmbeddingReadDocstore(w, "none")
        \/ StoreUserEmbeddingSave(w, "none")
        \/ StoreUserEmbeddingWriteDocstore(w, "none")
        \/ \E k \in Ks, s \in FilterSources :
              SearchCall(w, <<"a">>, <<"q">>, k, s, "none")
        \/ SearchReadDocstore(w, "none")
        \/ SearchReturn(w, "none")

RECURSIVE BuildIndex(_, _)
\* The index that successive stores of the given files leave for a user.
\* The ids of earlier runs are negative: no call of this run has them.
BuildIndex(file_paths, user_id) ==
    IF file_paths = << >> THEN EmptyStore
    ELSE LET f == Last(file_paths)
         IN  AddDocuments(BuildIndex(SubSeq(file_paths, 1, Len(file_paths) - 1),
                                     user_id),
                          Document(FileText(f), DataSource(f), user_id, f),
                          0 - Len(file_paths))

\* The files stored for user "a" by earlier runs of the process.
PriorStores == UNION { [1..n -> SourceFiles] : n \in 0..MaxStored }

\* A process that starts over the index earlier runs have persisted: the
\* session memory is new, the index of user "a" is on disk.
InitRetrieve ==
    /\ \E file_paths \in PriorStores :
          /\ disk = IF file_paths = << >> THEN SourceDisk
                    ELSE SaveLocal(MakeDirs(SourceDisk, UserDir(<<"a">>)).files,
                                   VectorStorePath(<<"a">>),
                                   BuildIndex(file_paths, <<"a">>), "none").files
          /\ stored = IF file_paths = << >> THEN { } ELSE { <<"a">> }
    /\ memory = << >>
    /\ pc = [w \in Workers |-> "idle"]
    /\ loc = [w \in Workers |-> NoLocals]
    /\ loopBusy = FALSE
    /\ calls = 0

\* Turns of user "a" through the endpoint, whose tool requests are for a's
\* documents.
NextRetrieve ==
    \E w \in Workers :
        \/ calls < MaxTurns /\ AskQuestionEndpoint(w, <<"a">>, <<"q">>)
        \/ \E q \in Queries :
              loc[w].rounds < MaxRounds /\ ModelRequestsTool(w, q, <<"a">>)
        \/ ToolLoads(w, "none")
        \/ ToolReadsDocstore(w, "none")
        \/ ToolExecutes(w, "none")
        \/ ModelAnswers(w, <<"answer">>)

RetrieveSpec == InitRetrieve /\ [][NextRetrieve]_vars

\* Turns of user "a" and clears of the conversations of "a" and "b", over
\* the index earlier runs have persisted.
NextClear ==
    \E w \in Workers :
        \/ AskQuestion(w, <<"q">>, <<"a">>)
        \/ \E u \in { <<"a">>, <<"b">> } : ClearConversation(w, u)
        \/ ModelAnswers(w, <<"answer">>)

ClearSpec == InitRetrieve /\ [][NextClear]_vars

\* The agent's turns under concurrent callers, over the index of user "a".
Next ==
    \E w \in Workers :
        \/ calls < MaxTurns
           /\ StoreUserEmbeddingCall(w, <<"a">>, <<"p", ".", "txt">>, "none")
        \/ StoreUserEmbeddingMakeDir(w)
        \/ StoreUserEmbeddingLoad(w, "none")
        \/ StoreUserEmbeddingReadDocstore(w, "none")
        \/ StoreUserEmbeddingProbe(w, "none")
        \/ StoreUserEmbeddingSave(w, "none")
        \/ StoreUserEmbeddingWriteDocstore(w, "none")
        \/ \E u \in AskUserIds, q \in AskQueries :
              calls < MaxTurns /\ AskQuestion(w, q, u)
        \/ \E u \in AskUserIds, q \in AskQueries :
              calls < MaxTurns /\ AskQuestionEndpoint(w, u, q)
        \/ \E u \in ToolUserIds :
              loc[w].rounds < MaxRounds /\ ModelRequestsTool(w, <<"q">>, u)
        \/ \E x \in LoadFaults : ToolLoads(w, x)
        \/ \E x \in LoadFaults : ToolReadsDocstore(w, x)
        \/ \E x \in EmbedFaults : ToolExecutes(w, x)
        \/ \E c \in Answers : ModelAnswers(w, c)
        \/ ModelFails(w)

Spec == Init /\ [][Next]_vars

\* The turns of a few users: the session memory and the loop.
Turns(user_ids) ==
    \E w \in Workers :
        \/ \E u \in user_ids :
              calls < MaxTurns /\ AskQuestion(w, <<"q">>, u)
        \/ calls < MaxTurns /\ AskQuestionEndpoint(w, <<"a">>, <<"q">>)
        \/ loc[w].rounds < MaxRounds /\ ModelRequestsTool(w, <<"q">>, <<"a">>)
        \/ ToolLoads(w, "none")
        \/ ToolReadsDocstore(w, "none")
        \/ ToolExecutes(w, "none")
        \/ ModelAnswers(w, <<"answer">>)
        \/ ModelFails(w)

\* The turns of two users under concurrent callers, beside the store of
\* one document of user "a".
NextTurn ==
    \/ Turns({ <<"a">>, <<"b">> })
    \/ \E w \in Workers :
          \/ calls < MaxTurns
             /\ StoreUserEmbeddingCall(w, <<"a">>, <<"p", ".", "txt">>, "none")
          \/ StoreUserEmbeddingMakeDir(w)
          \/ StoreUserEmbeddingLoad(w, "none")
          \/ StoreUserEmbeddingReadDocstore(w, "none")
          \/ StoreUserEmbeddingProbe(w, "none")
          \/ StoreUserEmbeddingSave(w, "none")
          \/ StoreUserEmbeddingWriteDocstore(w, "none")

TurnSpec == Init /\ [][NextTurn]_vars

\* The turns of one user under concurrent direct callers, for what they
\* eventually do: the capability asks for the tool as often as it likes,
\* and only the recursion limit of the run ends a turn it does not end.
NextLive ==
    \E w \in Workers :
        \/ calls < MaxTurns /\ AskQuestion(w, <<"q">>, <<"a">>)
        \/ ModelRequestsTool(w, <<"q">>, <<"a">>)
        \/ ToolLoads(w, "none")
        \/ ToolReadsDocstore(w, "none")
        \/ ToolExecutes(w, "none")
        \/ ModelAnswers(w, <<"answer">>)
        \/ ModelFails(w)
        \/ RecursionLimitReached(w)

\* A process that starts over one document of user "a" persisted earlier.
InitLive ==
    /\ disk = SaveLocal(MakeDirs(SourceDisk, UserDir(<<"a">>)).files,
                        VectorStorePath(<<"a">>),
                        BuildIndex(<< <<"p", ".", "txt">> >>, <<"a">>), "none").files
    /\ stored = { <<"a">> }
    /\ memory = << >>
    /\ pc = [w \in Workers |-> "idle"]
    /\ loc = [w \in Workers |-> NoLocals]
    /\ loopBusy = FALSE
    /\ calls = 0

\* The next step of the tool a turn has requested.
ToolRuns(w) ==
    \/ ToolLoads(w, "none")
    \/ ToolReadsDocstore(w, "none")
    \/ ToolExecutes(w, "none")

\* The next step the stream takes by itself: the tool a turn has requested,
\* or the raise at the recursion limit.
StreamRuns(w) == ToolRuns(w) \/ RecursionLimitReached(w)

\* The scheduling of a turn: the tool runs to its end once requested, the
\* stream raises as soon as the run is out of steps, and the capability,
\* consulted again and again, eventually answers or fails.
Fairness ==
    \A w \in Workers :
        /\ WF_vars(StreamRuns(w))
        /\ SF_vars(ModelAnswers(w, <<"answer">>) \/ ModelFails(w))

LiveSpec == InitLive /\ [][NextLive]_vars /\ Fairness

AliasSpec == InitLive /\ [][NextAlias]_vars

\* ============================================================== claims ===
\* All messages of all threads of the session memory store.
StoredMessages ==
    UNION { Range(memory[t]) : t \in DOMAIN memory }

\* The serialized context is a "no documents found" message.
IsNoDocumentsMessage(content) ==
    content # << >> /\ Head(content) = "No documents found for user "

\* C1. Isolation: the retrieval step of an ask issued for user B never
\* returns a document that was stored for another user A: every document
\* a tool result carries belongs to the user the turn was invoked for.
C1_Isolation ==
    \A m \in StoredMessages :
        m.role = "tool" /\ ~IsBlank(m.by) =>
            \A i \in 1..Len(m.artifact) : m.artifact[i].metadata.user_id = m.by

\* describe_user(u).total_documents, and 0 for a user with no index
TotalDocuments(files, user_id) ==
    GetUserInfo(files, user_id, "none").total_documents

\* C2. Append-only growth: a store adds one document to those it has
\* loaded, a store that succeeds leaves the user's total_documents one
\* larger than the call found it, and no step of any operation, in any
\* interleaving, makes a user's total_documents smaller.
C2_AppendOnlyGrowth ==
    [][/\ \A w \in Workers :
            /\ pc[w] = "store_loaded" /\ pc'[w] = "store_saving" =>
                  Len(loc'[w].vector_store.docstore)
                      = Len(loc[w].vector_store.docstore) + 1
            /\ pc[w] = "store_saving" /\ loc'[w].result.status = "success" =>
                  TotalDocuments(disk', loc[w].user_id)
                      = Len(loc[w].vector_store.docstore)
       /\ \A u \in IndexUserIds :
            TotalDocuments(disk', u) >= TotalDocuments(disk, u)]_vars

\* C3. Soft-fail retrieval: whenever retrieve_context yields an empty
\* structured result, its serialized context is a human-readable
\* "no documents found" message.
C3_SoftFailRetrieval ==
    \A m \in StoredMessages :
        m.role = "tool" /\ ~IsBlank(m.by) /\ m.artifact = << >> =>
            IsNoDocumentsMessage(m.content)

\* C4. Failure propagation: a failure of the embedding capability or of
\* the storage read during the retrieval step is not turned into a tool
\* result; the only soft "no documents" context is the one for a user
\* with no stored index.
C4_FailurePropagation ==
    \A m \in StoredMessages :
        m.role = "tool" /\ ~IsBlank(m.by) =>
            "Failed to search embeddings for user " \notin Range(m.content)

\* C5. Input validation: an ask whose query or user_id is empty or blank
\* ends with the validation error, has called no storage, embedding,
\* generation or memory capability, and has left no message in any thread,
\* on every path into ask.
C5_InputValidation ==
    \A w \in Workers :
        loc[w].kind = "ask" /\ (IsBlank(loc[w].query) \/ IsBlank(loc[w].user_id)) =>
            /\ pc[w] = "idle"
            /\ loc[w].result.status = "400"
            /\ loc[w].effects = { }
            /\ \A m \in StoredMessages : m.turn # loc[w].turn

InTurn(w) == pc[w] \in {"AWAITING_DECISION", "TOOL_EXECUTING"}

IsToolRequest(m) == m.role = "ai" /\ m.tool_calls # << >>

IsDirectAnswer(m) == m.role = "ai" /\ m.tool_calls = << >>

\* C6. Session isolation: distinct user ids have distinct thread ids, the
\* thread of user u holds only messages of turns invoked with user_id u,
\* and a running turn has read only such messages.
C6_SessionIsolation ==
    /\ \A u, v \in UserIds : u # v => ThreadId(u) # ThreadId(v)
    /\ \A u \in UserIds :
          ThreadId(u) \in DOMAIN memory =>
              \A m \in Range(memory[ThreadId(u)]) : m.by = u
    /\ \A w \in Workers :
          InTurn(w) => \A m \in Range(loc[w].messages) : m.by = loc[w].user_id

\* Two users have each completed a turn, each in a thread of its own.
C6_Witness ==
    \E u, v \in UserIds :
        /\ u # v
        /\ ThreadId(u) \in DOMAIN memory /\ ThreadId(v) \in DOMAIN memory
        /\ \E m \in Range(memory[ThreadId(u)]) : IsDirectAnswer(m)
        /\ \E m \in Range(memory[ThreadId(v)]) : IsDirectAnswer(m)

\* C7. Append-only history: every step leaves each thread's history a
\* prefix of the history after it; no step removes or reorders messages.
C7_AppendOnlyHistory ==
    [][\A t \in DOMAIN memory :
          t \in DOMAIN memory' /\ IsPrefix(memory[t], memory'[t])]_vars

\* C8. Agent loop ordering: within a turn, a tool request of the turn is
\* either the last message, and the tool is executing, or it is followed
\* at once by the tool result that answers it; the capability is consulted
\* only with every tool request of the turn answered; and a turn returns
\* an answer only from AWAITING_DECISION, by a direct answer.
C8_AgentLoopOrdering ==
    /\ [](\A w \in Workers :
            InTurn(w) =>
                LET m == loc[w].messages
                IN  /\ m # << >>
                    /\ (pc[w] = "TOOL_EXECUTING") =
                           (IsToolRequest(Last(m)) /\ Last(m).turn = loc[w].turn)
                    /\ \A i \in 1..(Len(m) - 1) :
                          IsToolRequest(m[i]) /\ m[i].turn = loc[w].turn =>
                              /\ m[i + 1].role = "tool"
                              /\ m[i + 1].turn = m[i].turn
                              /\ m[i + 1].tool_calls = m[i].tool_calls)
    /\ [][\A w \in Workers :
            InTurn(w) /\ loc'[w].result.status \in {"200", "returned"} =>
                /\ pc[w] = "AWAITING_DECISION"
                /\ IsDirectAnswer(Last(memory'[ThreadId(loc[w].user_id)]))
                /\ Last(memory'[ThreadId(loc[w].user_id)]).turn = loc[w].turn]_vars

\* A turn is back at the capability with the result of the tool it asked for.
C8_Witness ==
    \E w \in Workers :
        /\ pc[w] = "AWAITING_DECISION" /\ loc[w].rounds > 0
        /\ Last(loc[w].messages).role = "tool"
        /\ Last(loc[w].messages).turn = loc[w].turn

\* C9. Turn termination: a turn ends only by a direct answer of the
\* capability or by the capability's failure, never by a step limit, and
\* a turn in progress eventually ends when the capability eventually
\* answers.
C9_TurnTermination ==
    /\ [][\A w \in Workers :
            InTurn(w) /\ ~InTurn(w)' =>
                \/ /\ loc'[w].result.status \in {"200", "returned"}
                   /\ IsDirectAnswer(Last(memory'[ThreadId(loc[w].user_id)]))
                   /\ Last(memory'[ThreadId(loc[w].user_id)]).turn = loc[w].turn
                \/ loc'[w].result = TurnFailure(loc[w])]_vars
    /\ \A w \in Workers : InTurn(w) ~> ~InTurn(w)

\* C10. Concurrent asks: no step of a turn writes the persisted index;
\* every write of a thread's history replaces it by the writing run's own
\* messages and its new message, whatever the thread held, so that of two
\* concurrent asks of one user the last writer wins.
C10_ConcurrentAsks ==
    [][\A w \in Workers :
          loc'[w] # loc[w] /\ loc'[w].kind = "ask" /\ loc'[w].result.status # "400" =>
              LET t == ThreadId(loc'[w].user_id)
                  own == IF InTurn(w) THEN loc[w].messages
                         ELSE GetCheckpoint(memory, t)
              IN  /\ disk' = disk
                  /\ memory'[t] # GetCheckpoint(memory, t) =>
                        /\ memory'[t] = Append(own, Last(memory'[t]))
                        /\ Last(memory'[t]).turn = loc'[w].turn]_vars

\* A lost update: a turn has returned its answer, and the thread's history
\* holds the messages of another turn of the same user but not that answer.
C10_Witness ==
    \E w \in Workers :
        /\ pc[w] = "idle" /\ loc[w].kind = "ask"
        /\ loc[w].result.status \in {"200", "returned"}
        /\ \A m \in Range(memory[ThreadId(loc[w].user_id)]) :
              ~(IsDirectAnswer(m) /\ m.turn = loc[w].turn)
        /\ \E m \in Range(memory[ThreadId(loc[w].user_id)]) :
              m.turn # loc[w].turn /\ m.by = loc[w].user_id

\* The entries of a loaded index that the filter of a search keeps.
Matching(l) ==
    { e \in Range(Entries(l.vector_store)) :
        FilterDict(e.metadata, l.user_id, l.filter_source) }

\* C11. Ranking and size of search results: a successful search returns at
\* most k results, each a record of the searching user (and of the source
\* filtered for) scored by the distance of its indexed vector to the query
\* vector, in non-decreasing order of distance; and every matching record of
\* the index nearer to the query than a returned one is returned before it.
C11_RankingAndSize ==
    \A w \in Workers :
        loc[w].kind = "search" /\ loc[w].result.status = "success" =>
            LET l == loc[w]
                r == l.result.results
            IN  /\ Len(r) <= l.k /\ l.result.total_results = Len(r)
                /\ \A i \in 1..Len(r) :
                      /\ r[i].metadata.user_id = l.user_id
                      /\ l.filter_source # << >> =>
                            r[i].metadata.source = l.filter_source
                      /\ \E e \in Matching(l) :
                            /\ r[i].content = e.page_content
                            /\ r[i].metadata = e.metadata
                            /\ r[i].similarity_score =
                                  L2(e.vector, Embed(l.query))
                /\ \A i, j \in 1..Len(r) :
                      i < j => r[i].similarity_score <= r[j].similarity_score
                /\ \A e \in Matching(l), j \in 1..Len(r) :
                      L2(e.vector, Embed(l.query)) < r[j].similarity_score =>
                          \E i \in 1..(j - 1) :
                              /\ r[i].content = e.page_content
                              /\ r[i].metadata = e.metadata

\* A search has returned two results, the nearer one first although it was
\* stored after the other.
C11_Witness ==
    \E w \in Workers :
        /\ loc[w].kind = "search" /\ loc[w].result.status = "success"
        /\ Len(loc[w].result.results) = 2
        /\ loc[w].result.results[1].similarity_score
              < loc[w].result.results[2].similarity_score
        /\ \E i, j \in 1..Len(loc[w].vector_store.docstore) :
              /\ i < j
              /\ loc[w].vector_store.docstore[j].page_content
                    = loc[w].result.results[1].content
              /\ loc[w].vector_store.docstore[i].page_content
                    = loc[w].result.results[2].content

\* The records of an index that carry the given user id, in index order.
OwnRecords(vector_store, user_id) ==
    SelectSeqBy(vector_store,
                { e \in Range(vector_store) : e.metadata.user_id = user_id })

\* C12. Idempotent search: a search of a user that has returned its ranked
\* results returns the same results (same documents, same order, same
\* scores) when it is made again, no store for that user having been
\* called.
C12_IdempotentSearch ==
    \A w \in Workers :
        LET l == loc[w]
        IN  (/\ l.kind = "search" /\ pc[w] = "idle"
             /\ l.result.status = "success"
             /\ \A v \in Workers :
                   loc[v].kind = "store" => loc[v].user_id # l.user_id)
            => SearchUserEmbeddings(disk, l.query, l.user_id, l.k,
                                    l.filter_source, "none") = l.result

\* C13. Ownership invariant: every record of the index persisted under the
\* storage path of user u has metadata.user_id equal to u, and no record
\* is in the index of two different users.
C13_Ownership ==
    /\ \A u \in IndexUserIds :
          \A e \in Range(PersistedIndexOf(u)) : e.metadata.user_id = u
    /\ \A u, v \in IndexUserIds :
          u # v => Range(PersistedIndexOf(u)) \cap Range(PersistedIndexOf(v)) = { }

\* C14. Lost update on concurrent stores: a store adds its own document to
\* the documents it has loaded, and when it succeeds the documents persisted
\* are those, whatever the files held by then; nothing keeps a second store
\* of the same user from loading in between, so two stores can both succeed
\* and leave one document.
C14_LostUpdateOnStores ==
    [][\A w \in Workers :
          /\ pc[w] = "store_loaded" /\ pc'[w] = "store_saving" =>
                /\ Len(loc'[w].vector_store.docstore)
                      = Len(loc[w].vector_store.docstore) + 1
                /\ IsPrefix(loc[w].vector_store.docstore,
                            loc'[w].vector_store.docstore)
                /\ Last(loc'[w].vector_store.docstore).id = loc[w].turn
                /\ Last(loc'[w].vector_store.docstore).metadata.user_id
                      = loc[w].user_id
          /\ pc[w] = "store_saving" /\ loc'[w].result.status = "success" =>
                /\ ReadDocstore(disk', VectorStorePath(loc[w].user_id)).docstore
                      = loc[w].vector_store.docstore
                /\ Last(loc[w].vector_store.docstore).id
                      = loc'[w].result.document_id]_vars

\* Two stores of one user have both returned success, and the persisted
\* index holds the document of one of them only.
C14_Witness ==
    \E w, v \in Workers :
        /\ w # v /\ pc[w] = "idle" /\ pc[v] = "idle"
        /\ loc[w].kind = "store" /\ loc[v].kind = "store"
        /\ loc[w].user_id = loc[v].user_id
        /\ loc[w].result.status = "success" /\ loc[v].result.status = "success"
        /\ \E e \in Range(PersistedIndexOf(loc[w].user_id)) :
              e.id = loc[w].result.document_id
        /\ \A e \in Range(PersistedIndexOf(loc[w].user_id)) :
              e.id # loc[v].result.document_id

\* C15. Answer of a turn: what ask_question returns for a non-blank query
\* and user id is the content of the direct answer that ends the turn, and
\* is neither the enhanced query of the turn nor the content of a tool
\* result of the turn.
C15_AnswerOfTurn ==
    [][\A w \in Workers :
          (/\ InTurn(w) /\ loc'[w].result.status \in {"200", "returned"}
           /\ ~IsBlank(loc[w].user_id) /\ ~IsBlank(loc[w].query)) =>
              LET final == Last(memory'[ThreadId(loc[w].user_id)])
              IN  /\ IsDirectAnswer(final) /\ final.turn = loc[w].turn
                  /\ loc'[w].result.response = final.content
                  /\ \A m \in Range(loc[w].messages) :
                        m.turn = loc[w].turn /\ m.role \in {"human", "tool"} =>
                            loc'[w].result.response # m.content]_vars

\* The result says that the user has no embeddings.
IsNoEmbeddings(result) ==
    /\ result.status = "error"
    /\ Head(result.message) = "No embeddings found for user "

\* C16. Lazy index lifecycle: the index of a user exists on durable storage
\* exactly when a store for that user has succeeded; a search or describe
\* reports "no embeddings found" exactly when no store for its user has
\* succeeded; and a search or describe works on the files of the index as
\* they are persisted when it reads them.
C16_LazyIndexLifecycle ==
    /\ [](\A u \in IndexUserIds :
            PathExists(disk, VectorStorePath(u)) = (u \in stored))
    /\ [][\A w \in Workers :
            loc'[w] # loc[w] /\ loc'[w].kind \in {"search", "describe"} =>
                /\ pc[w] = "idle" =>
                      /\ IsNoEmbeddings(loc'[w].result)
                            = (loc'[w].user_id \notin stored)
                      /\ pc'[w] # "idle" =>
                            loc'[w].vector_store.index =
                               ReadIndex(disk, VectorStorePath(loc'[w].user_id)).index
                /\ pc[w] \in {"search_reading", "describe_reading"} =>
                      /\ ~IsNoEmbeddings(loc'[w].result)
                      /\ loc'[w].result.status # "error" =>
                            loc'[w].vector_store.docstore =
                               ReadDocstore(disk, VectorStorePath(loc'[w].user_id)).docstore
                /\ pc[w] = "search_loaded" => ~IsNoEmbeddings(loc'[w].result)]_vars

\* How many times a piece of text occurs in a text.
Occurrences(piece, text) ==
    Cardinality({ i \in 1..Len(text) : text[i] = piece })

\* C17. Retrieval serialization: a tool result carries at most 3 documents,
\* those of the search for the requested query in their ranked order, and
\* its serialized context is one "Source: ... Content: ..." block for each
\* of them, in that order, with a blank line between two blocks.
C17_RetrievalSerialization ==
    \A m \in StoredMessages :
        m.role = "tool" =>
            LET docs == m.artifact
                query == m.tool_calls[1].query
                found == SearchUserEmbeddings(disk, query, m.tool_calls[1].user_id,
                                              3, << >>, "none")
            IN  /\ Len(docs) <= 3
                /\ Len(docs) = Len(found.results)
                /\ \A i \in 1..Len(docs) :
                      /\ docs[i].page_content = found.results[i].content
                      /\ docs[i].metadata = found.results[i].metadata
                /\ \A i, j \in 1..Len(docs) :
                      i < j => L2(Embed(docs[i].page_content), Embed(query))
                                 <= L2(Embed(docs[j].page_content), Embed(query))
                /\ docs # << >> =>
                      /\ Occurrences("Source: ", m.content) = Len(docs)
                      /\ Occurrences("\nContent: ", m.content) = Len(docs)
                      /\ Occurrences("\n\n", m.content) = Len(docs) - 1
                      /\ m.content =
                            JoinBlocks([i \in 1..Len(docs) |->
                                <<"Source: ">> \o MetadataText(docs[i].metadata)
                                \o <<"\nContent: ">> \o docs[i].page_content])

\* A tool result carries three documents of an index that holds four, the
\* nearest first and a farther one last.
C17_Witness ==
    \E m \in StoredMessages :
        /\ m.role = "tool" /\ Len(m.artifact) = 3
        /\ Len(PersistedIndexOf(m.tool_calls[1].user_id)) = 4
        /\ L2(Embed(m.artifact[1].page_content), Embed(m.tool_calls[1].query))
              < L2(Embed(m.artifact[3].page_content), Embed(m.tool_calls[1].query))
        /\ PersistedIndexOf(m.tool_calls[1].user_id)[1].page_content
              # m.artifact[1].page_content

\* C18. Clear is a no-op: a clear_conversation leaves every thread's history
\* and every persisted index as they are, and an ask that starts after a
\* clear for its user loads the whole history of the thread and extends it.
C18_ClearIsNoOp ==
    [][\A w \in Workers :
          /\ loc'[w] # loc[w] /\ loc'[w].kind = "clear" =>
                memory' = memory /\ disk' = disk
          /\ (/\ ~InTurn(w) /\ InTurn(w)'
              /\ \E v \in Workers : /\ loc[v].kind = "clear"
                                     /\ loc[v].user_id = loc'[w].user_id) =>
                LET t == ThreadId(loc'[w].user_id)
                IN  /\ loc'[w].loaded = GetCheckpoint(memory, t)
                    /\ IsPrefix(GetCheckpoint(memory, t), memory'[t])
                    /\ Len(memory'[t]) = Len(GetCheckpoint(memory, t)) + 1]_vars

\* A turn of a user runs on the history of an earlier turn, which a clear
\* for that user, made between the two asks, has left in the thread.
C18_Witness ==
    \E w, v \in Workers :
        /\ InTurn(w) /\ loc[v].kind = "clear"
        /\ loc[v].user_id = loc[w].user_id /\ loc[v].turn < loc[w].turn
        /\ \E i \in 1..Len(loc[w].loaded) :
              /\ loc[w].loaded[i].turn < loc[v].turn
              /\ \E j \in 1..Len(loc[w].loaded) : IsDirectAnswer(loc[w].loaded[j])
        /\ PersistedIndexOf(loc[w].user_id) # << >>

\* C19. Read-only operations: a step of search_user_embeddings,
\* get_user_info, retrieve_context, ask_question or clear_conversation leaves
\* every persisted index as it is, and the persisted index of a user changes
\* only in the save of a store_user_embedding called with that user_id.
C19_ReadOnlyOperations ==
    [][/\ \A w \in Workers :
             loc'[w] # loc[w] /\ loc'[w].kind # "store" => disk' = disk
       /\ \A u \in IndexUserIds :
             PersistedIndex(disk', u) # PersistedIndexOf(u) =>
                 \E w \in Workers : /\ pc[w] \in {"store_loaded", "store_saving"}
                                    /\ pc'[w] # pc[w]
                                    /\ loc[w].user_id = u]_vars

\* C20. A failed store leaves the index unchanged: a step in which
\* store_user_embedding returns status "error" leaves the documents of the
\* user's persisted index as they were, and a user without an index before
\* the step has none after it.
C20_FailedStoreLeavesIndex ==
    [][\A w \in Workers, u \in IndexUserIds :
          (/\ loc'[w] # loc[w] /\ loc'[w].kind = "store"
           /\ loc'[w].result.status = "error" /\ loc'[w].user_id = u) =>
              /\ PersistedIndex(disk', u) = PersistedIndexOf(u)
              /\ PathExists(disk', VectorStorePath(u))
                    = PathExists(disk, VectorStorePath(u))]_vars

=============================================================================
